---- MODULE Spec2Model ----
(***************************************************************************)
(* Model of the launcher of zxteamorg/node.launcher.                       *)
(*                                                                         *)
(* src/src/index.ts is the current revision of the launcher; the unnamed   *)
(* src/unnamed/part_000 holds an earlier revision whose default            *)
(* configuration factory differs (defaultConfigurationFactory).  Both are  *)
(* modelled: the variable "variant" says which revision was launched.      *)
(*                                                                         *)
(* JavaScript runs one callback at a time, so an action is one run of the  *)
(* event loop: from the resumption of an await (or the delivery of a       *)
(* signal, or the launcher call itself) up to the next await.              *)
(***************************************************************************)
EXTENDS Integers, Sequences, FiniteSets, TLC

\* ------------------------------------------------------------ bounds
\* longest command line (process.argv without the node and script paths)
MaxArgv == 3
\* most SIGTERM/SIGINT deliveries handled by gracefulShutdown in one run
MaxSignals == 2
\* most positional arguments of a launcher(...) call
MaxArity == 4

\* --------------------------------------------------------- constants
CONFIG_ENV_ARG == "--config-env"
CONFIG_FILE_ARG == "--config-file="
CONFIG_SECRET_DIR_ARG == "--config-secrets-dir="

shutdownSignals == {"SIGTERM", "SIGINT"}

\* A command-line argument is the string prefix \o rest, where prefix is the
\* recognized flag text the string starts with (or the whole unrelated flag).
Arg(p, r) == [prefix |-> p, rest |-> r]

FileA == Arg(CONFIG_FILE_ARG, "A.json")
FileB == Arg(CONFIG_FILE_ARG, "B.json")
SecretsS == Arg(CONFIG_SECRET_DIR_ARG, "/run/secrets")
SecretsT == Arg(CONFIG_SECRET_DIR_ARG, "/run/tokens")
EnvFlag == Arg(CONFIG_ENV_ARG, "")
\* "--config-envx": starts like the environment flag but is not equal to it
NearMiss == Arg(CONFIG_ENV_ARG, "x")

ArgUniverse == {FileA, FileB, SecretsS, SecretsT, EnvFlag, NearMiss}

ArgvSet == UNION {[1..n -> ArgUniverse] : n \in 0..MaxArgv}

\* arg.startsWith(p)
StartsWith(arg, p) == arg.prefix = p
\* arg.substring(p.length), for an arg that starts with p
Substring(arg, p) == arg.rest
\* arg === CONFIG_ENV_ARG
IsEnvArg(arg) == arg.prefix = CONFIG_ENV_ARG /\ arg.rest = ""

\* What the sources hold: the two files of the spec's scenario, a secrets
\* directory and the process environment.  A configuration is a function
\* from the keys it defines to their values.
fileConfiguration(path) ==
    IF path = "A.json" THEN [port |-> "1"]
    ELSE [port |-> "2", host |-> "x"]

secretsDirectoryConfiguration(dir) ==
    IF dir = "/run/secrets" THEN [port |-> "5", host |-> "s"]
    ELSE [port |-> "6"]

\* process.env, as envConfiguration() reads it: with or without PORT.
EnvSet == {[k \in {} |-> ""], [port |-> "9"]}

\* envConfiguration(): the configuration backed by process.env
envConfiguration(e) == e

\* What a user-supplied configuration loader resolves to.
CustomConfiguration == [port |-> "7"]

EmptyConfiguration == [k \in {} |-> ""]

\* chainConfiguration(...items): a key is answered by the first item of the
\* chain that defines it.
chainConfiguration(items) ==
    [k \in UNION {DOMAIN items[i] : i \in 1..Len(items)} |->
        LET first == CHOOSE i \in 1..Len(items) :
                        /\ k \in DOMAIN items[i]
                        /\ \A j \in 1..(i - 1) : k \notin DOMAIN items[j]
        IN items[first][k]]

\* Array.prototype.reverse
Reverse(s) == [i \in 1..Len(s) |-> s[Len(s) + 1 - i]]

\* Array.prototype.filter
RECURSIVE FilterPrefix(_, _)
FilterPrefix(s, p) ==
    IF s = <<>> THEN <<>>
    ELSE IF StartsWith(Head(s), p) THEN <<Head(s)>> \o FilterPrefix(Tail(s), p)
    ELSE FilterPrefix(Tail(s), p)

\* Whether the loop of defaultConfigurationLoader takes the argument.
IsRecognized(arg) ==
    \/ StartsWith(arg, CONFIG_FILE_ARG)
    \/ StartsWith(arg, CONFIG_SECRET_DIR_ARG)
    \/ IsEnvArg(arg)

\* The configuration one recognized argument contributes.
SourceOf(arg, e) ==
    IF StartsWith(arg, CONFIG_FILE_ARG)
    THEN fileConfiguration(Substring(arg, CONFIG_FILE_ARG))
    ELSE IF StartsWith(arg, CONFIG_SECRET_DIR_ARG)
    THEN secretsDirectoryConfiguration(Substring(arg, CONFIG_SECRET_DIR_ARG))
    ELSE envConfiguration(e)

\* Whether loading the argument's source is awaited (a read that can fail).
IsAwaitedSource(arg) ==
    \/ StartsWith(arg, CONFIG_FILE_ARG)
    \/ StartsWith(arg, CONFIG_SECRET_DIR_ARG)

\* One turn of the loop of defaultConfigurationLoader: what the argument
\* pushes on chainItems.
LoaderPush(items, arg, e) ==
    IF IsRecognized(arg) THEN Append(items, SourceOf(arg, e)) ELSE items

\* Mutant of LoaderFinish: the chainItems.reverse() is missing.
LoaderFinishNoReverse(items) == chainConfiguration(items)

\* The end of defaultConfigurationLoader: reverse the items and chain them.
LoaderFinish(items) == chainConfiguration(Reverse(items))

\* part_000: the arguments of one kind, last flag first.
configFiles(av) == Reverse(FilterPrefix(av, CONFIG_FILE_ARG))
secretsDirs(av) == Reverse(FilterPrefix(av, CONFIG_SECRET_DIR_ARG))

\* part_000: the sources in the order defaultConfigurationFactory loads and
\* pushes them after the environment: the secrets directories, then the
\* files.
FactoryLoadOrder(av) == secretsDirs(av) \o configFiles(av)

\* part_000: the end of defaultConfigurationFactory chains the items as
\* pushed.
FactoryFinish(items) == chainConfiguration(items)

\* ------------------------------------------------------------- state
VARIABLES
    variant,               \* which revision's launcher was called
    pc,                    \* where run() stands
    args,                  \* the launcher call's arguments, by typeof
    runtimeStuff,          \* what the argument dispatch selected
    argv,                  \* process.argv as the default loader reads it
    env,                   \* process.env as the default loader reads it
    loadQueue,             \* the arguments the default loader has yet to take
    chainItems,            \* the default loader's chainItems
    rawConfiguration,      \* the configuration the loader resolved to
    hasConfiguration,      \* whether a loader has resolved
    cancelled,             \* cancellationTokenSource: cancel() was called
    unhandledRejection,    \* the process-level handler is registered
    signalHandlers,        \* the signals with a gracefulShutdown handler
    destroyRequestCount,
    runtime,               \* whether `runtime` is assigned
    destroyState,          \* the promise of runtime.destroy()
    exitCode,              \* -1 while the process lives
    exitBy,                \* the statement that ended the process
    exitAt,                \* pc when the process ended
    log,                   \* the calls made on the logger, in order
    isInfoEnabled,
    isFatalEnabled,
    destroyCalls,          \* calls of runtime.destroy()
    cancelCalls,           \* calls of cancellationTokenSource.cancel()
    parserCalls,           \* calls of the configuration parser
    factoryCalls,          \* calls of the runtime factory
    initError,             \* the error run()'s catch block caught
    initStep,              \* the step that raised it
    signalAt,              \* pc when the first SIGTERM/SIGINT was delivered
    deliveries,            \* signals delivered to a gracefulShutdown handler
    tokenAtDestroy         \* the token's state when runtime.destroy() was called

vars == <<variant, pc, args, runtimeStuff, argv, env, loadQueue, chainItems,
          rawConfiguration, hasConfiguration, cancelled, unhandledRejection,
          signalHandlers, destroyRequestCount, runtime, destroyState,
          exitCode, exitBy, exitAt, log, isInfoEnabled, isFatalEnabled,
          destroyCalls, cancelCalls, parserCalls, factoryCalls, initError,
          initStep, signalAt, deliveries, tokenAtDestroy>>

ArgKinds == {"function", "other"}
ArgShapes == UNION {[1..n -> ArgKinds] : n \in 0..MaxArity}

Alive == exitCode = -1

Entry(level, msg, sig, n) == [level |-> level, msg |-> msg, sig |-> sig, n |-> n]

Init ==
    /\ variant = "none"
    /\ pc = "idle"
    /\ args = <<>>
    /\ runtimeStuff = [loader |-> "none", parser |-> FALSE, factory |-> "other"]
    /\ argv = <<>>
    /\ env = EmptyConfiguration
    /\ loadQueue = <<>>
    /\ chainItems = <<>>
    /\ rawConfiguration = EmptyConfiguration
    /\ hasConfiguration = FALSE
    /\ cancelled = FALSE
    /\ unhandledRejection = FALSE
    /\ signalHandlers = {}
    /\ destroyRequestCount = 0
    /\ runtime = FALSE
    /\ destroyState = "none"
    /\ exitCode = -1
    /\ exitBy = "none"
    /\ exitAt = "none"
    /\ log = <<>>
    /\ isInfoEnabled \in BOOLEAN
    /\ isFatalEnabled \in BOOLEAN
    /\ destroyCalls = 0
    /\ cancelCalls = 0
    /\ parserCalls = 0
    /\ factoryCalls = 0
    /\ initError = "none"
    /\ initStep = "none"
    /\ signalAt = "none"
    /\ deliveries = 0
    /\ tokenAtDestroy = "none"

\* process.exit(code)
Exit(code, by) ==
    /\ exitCode' = code
    /\ exitBy' = by
    /\ exitAt' = pc
    /\ pc' = "terminated"

NoExit == UNCHANGED <<exitCode, exitBy, exitAt>>

\* index.ts: the dispatch on the launcher call's arguments.  A loader of
\* "wrong" stands for the thrown Error("Wrong arguments").
Dispatch(a) ==
    IF Len(a) = 3 /\ a[1] = "function" /\ a[2] = "function"
    THEN [loader |-> "custom", parser |-> TRUE, factory |-> a[3]]
    ELSE IF Len(a) = 2 /\ a[1] = "function" /\ a[2] = "function"
    THEN [loader |-> "defaultConfigurationLoader", parser |-> TRUE, factory |-> a[2]]
    ELSE IF Len(a) = 1 /\ a[1] = "function"
    THEN [loader |-> "none", parser |-> FALSE, factory |-> a[1]]
    ELSE [loader |-> "wrong", parser |-> FALSE, factory |-> "other"]

\* part_000: the dispatch on the launcher call's arguments.
DispatchFactory(a) ==
    IF Len(a) = 1 /\ a[1] = "function"
    THEN [loader |-> "defaultConfigurationFactory", parser |-> FALSE, factory |-> a[1]]
    ELSE IF Len(a) = 2 /\ a[1] = "function" /\ a[2] = "function"
    THEN [loader |-> "custom", parser |-> FALSE, factory |-> a[2]]
    ELSE [loader |-> "wrong", parser |-> FALSE, factory |-> "other"]

\* Whether run() reads process.argv: only the default loaders do.
ReadsArgv(stuff) ==
    stuff.loader \in {"defaultConfigurationLoader", "defaultConfigurationFactory"}

\* Mutant of InitCatch: the cancellation check is missing, every error is a
\* failure.
InitCatchNoCancelCheck(e, step, l) ==
    /\ initError' = e
    /\ initStep' = step
    /\ log' = l \o (IF isFatalEnabled
                     THEN <<Entry("fatal", "Runtime initialization failed", "", 0)>>
                     ELSE <<>>)
                \o <<Entry("debug", "Runtime initialization failed", "", 0)>>
    /\ Exit(127, "initFailed")

\* Mutant of InitCatch: the catch block falls through to exit code 0 for
\* every error.
InitCatchAlwaysZero(e, step, l) ==
    /\ initError' = e
    /\ initStep' = step
    /\ log' = Append(l, Entry("warn", "Runtime initialization was cancelled by user", "", 0))
    /\ Exit(0, "initCancelled")

\* The catch block of run(): e is the class of what was thrown, l the log
\* so far.
InitCatch(e, step, l) ==
    /\ initError' = e
    /\ initStep' = step
    /\ IF e = "CancelledError"
       THEN /\ log' = Append(l, Entry("warn", "Runtime initialization was cancelled by user", "", 0))
            /\ Exit(0, "initCancelled")
       ELSE /\ log' = l \o (IF isFatalEnabled
                             THEN <<Entry("fatal", "Runtime initialization failed", "", 0)>>
                             ELSE <<>>)
                        \o <<Entry("debug", "Runtime initialization failed", "", 0)>>
            /\ Exit(127, "initFailed")

\* The call of the runtime factory: a factory that is not a function
\* throws a TypeError inside the try block.
InvokeFactory(stuff, l) ==
    IF stuff.factory = "function"
    THEN /\ factoryCalls' = factoryCalls + 1
         /\ pc' = "factory"
         /\ log' = l
         /\ NoExit
         /\ UNCHANGED <<initError, initStep>>
    ELSE /\ factoryCalls' = factoryCalls
         /\ InitCatch("TypeError", "factory", l)

\* The outcomes of a call of the configuration parser.
ParserOutcomes(stuff) ==
    IF stuff.parser THEN {"ok", "CancelledError", "Error"} ELSE {"ok"}

\* Mutant of AfterLoad: the parser is called outside the try block, its
\* error rejects run().
AfterLoadParserUncaught(stuff, l) ==
    \E outcome \in ParserOutcomes(stuff) :
        /\ parserCalls' = parserCalls + (IF stuff.parser THEN 1 ELSE 0)
        /\ IF outcome = "ok"
           THEN InvokeFactory(stuff, l)
           ELSE /\ factoryCalls' = factoryCalls
                /\ initError' = outcome
                /\ initStep' = "parser"
                /\ log' = l
                /\ Exit(127, "runCatch")

\* run() once the loader has resolved: parse, then call the factory.
AfterLoad(stuff, l) ==
    \E outcome \in ParserOutcomes(stuff) :
        /\ parserCalls' = parserCalls + (IF stuff.parser THEN 1 ELSE 0)
        /\ IF outcome = "ok"
           THEN InvokeFactory(stuff, l)
           ELSE /\ factoryCalls' = factoryCalls
                /\ InitCatch(outcome, "parser", l)

\* Mutant of RunCatch: the rejection of run() is not caught, nothing is
\* logged and nothing ends the process.
RunCatchMissing(l) ==
    /\ log' = l
    /\ pc' = "running"
    /\ NoExit

\* The catch of run()'s promise: a rejected run() is logged and ends the
\* process, after a second in development.
RunCatch(l) ==
    /\ log' = l \o (IF isFatalEnabled
                     THEN <<Entry("fatal", "Wrong arguments", "", 0)>>
                     ELSE <<>>)
    /\ \E development \in BOOLEAN :
        IF development
        THEN /\ pc' = "exitScheduled"
             /\ NoExit
        ELSE Exit(127, "runCatch")

\* Mutant of SignalsInstalledAtStart: the handlers are registered before the
\* runtime factory is awaited.
SignalsInstalledEarly == shutdownSignals

\* The signal handlers run() has installed before its first await: none.
SignalsInstalledAtStart == {}

\* The launcher call up to run()'s first await.
LaunchWith(v, a, av, e, stuff) ==
    /\ pc = "idle"
    /\ Alive
    /\ variant' = v
    /\ args' = a
    /\ runtimeStuff' = stuff
    /\ unhandledRejection' = TRUE
    /\ signalHandlers' = SignalsInstalledAtStart
    /\ env' = e
    /\ LET l == Append(log, Entry("info", "Starting application...", "", 0))
       IN IF stuff.loader = "wrong"
          THEN /\ RunCatch(l)
               /\ argv' = <<>>
               /\ UNCHANGED <<loadQueue, chainItems, parserCalls, factoryCalls,
                              initError, initStep>>
          ELSE IF stuff.loader = "none"
          THEN /\ InvokeFactory(stuff, l)
               /\ argv' = <<>>
               /\ UNCHANGED <<loadQueue, chainItems, parserCalls>>
          ELSE /\ pc' = "loading"
               /\ log' = l
               /\ NoExit
               /\ argv' = (IF ReadsArgv(stuff) THEN av ELSE <<>>)
               /\ loadQueue' = (IF stuff.loader = "defaultConfigurationLoader" THEN av
                                ELSE IF stuff.loader = "defaultConfigurationFactory"
                                THEN FactoryLoadOrder(av)
                                ELSE <<>>)
               /\ chainItems' = (IF stuff.loader = "defaultConfigurationFactory"
                                 THEN <<envConfiguration(e)>>
                                 ELSE <<>>)
               /\ UNCHANGED <<parserCalls, factoryCalls, initError, initStep>>
    /\ UNCHANGED <<rawConfiguration, hasConfiguration, cancelled,
                   destroyRequestCount, runtime, destroyState, isInfoEnabled,
                   isFatalEnabled, destroyCalls, cancelCalls, signalAt, deliveries,
                   tokenAtDestroy>>

\* launcher(...args) of index.ts
launcher ==
    /\ pc = "idle"
    /\ \E a \in ArgShapes, av \in ArgvSet, e \in EnvSet :
        /\ ReadsArgv(Dispatch(a)) \/ (av = <<>> /\ e = EmptyConfiguration)
        /\ LaunchWith("index", a, av, e, Dispatch(a))

\* launcher(...args) of part_000
launcherFactory ==
    /\ pc = "idle"
    /\ \E a \in ArgShapes, av \in ArgvSet, e \in EnvSet :
        /\ ReadsArgv(DispatchFactory(a)) \/ (av = <<>> /\ e = EmptyConfiguration)
        /\ LaunchWith("part_000", a, av, e, DispatchFactory(a))

\* One turn of the default loader's loop: the next argument is taken, and
\* the read of a file or of a secrets directory may fail.
LoaderStep ==
    /\ pc = "loading"
    /\ Alive
    /\ ReadsArgv(runtimeStuff)
    /\ loadQueue # <<>>
    /\ \E readOk \in (IF IsAwaitedSource(Head(loadQueue)) THEN BOOLEAN ELSE {TRUE}) :
        IF readOk
        THEN /\ chainItems' = LoaderPush(chainItems, Head(loadQueue), env)
             /\ loadQueue' = Tail(loadQueue)
             /\ NoExit
             /\ UNCHANGED <<pc, log, initError, initStep>>
        ELSE /\ InitCatch("Error", "loader", log)
             /\ UNCHANGED <<chainItems, loadQueue>>
    /\ UNCHANGED <<signalAt, deliveries, variant, args, runtimeStuff, argv, env, rawConfiguration,
                   hasConfiguration, cancelled, unhandledRejection, signalHandlers,
                   destroyRequestCount, runtime, destroyState, isInfoEnabled,
                   isFatalEnabled, destroyCalls, cancelCalls, parserCalls,
                   factoryCalls, tokenAtDestroy>>

\* Mutant of MissingConfiguration: the empty chain is not rejected.
MissingConfigurationIgnored(items) == FALSE

\* Whether defaultConfigurationLoader throws its LaunchError.
MissingConfiguration(items) == Len(items) = 0

\* The default loader after its loop, and run() after the loader.
LoaderDone ==
    /\ pc = "loading"
    /\ Alive
    /\ ReadsArgv(runtimeStuff)
    /\ loadQueue = <<>>
    /\ IF runtimeStuff.loader = "defaultConfigurationLoader" /\ MissingConfiguration(chainItems)
       THEN /\ InitCatch("LaunchError", "loader", log)
            /\ UNCHANGED <<rawConfiguration, hasConfiguration, parserCalls, factoryCalls>>
       ELSE /\ rawConfiguration' = (IF runtimeStuff.loader = "defaultConfigurationLoader"
                                    THEN LoaderFinish(chainItems)
                                    ELSE FactoryFinish(chainItems))
            /\ hasConfiguration' = TRUE
            /\ AfterLoad(runtimeStuff, log)
    /\ UNCHANGED <<signalAt, deliveries, variant, args, runtimeStuff, argv, env, loadQueue, chainItems,
                   cancelled, unhandledRejection, signalHandlers,
                   destroyRequestCount, runtime, destroyState, isInfoEnabled,
                   isFatalEnabled, destroyCalls, cancelCalls, tokenAtDestroy>>

\* The outcomes of a user-supplied asynchronous step.
AsyncOutcomes == {"resolved", "CancelledError", "Error"}

\* A user-supplied configuration loader settles, and run() goes on.
CustomLoaderSettles ==
    /\ pc = "loading"
    /\ Alive
    /\ runtimeStuff.loader = "custom"
    /\ \E outcome \in AsyncOutcomes :
        IF outcome = "resolved"
        THEN /\ rawConfiguration' = CustomConfiguration
             /\ hasConfiguration' = TRUE
             /\ AfterLoad(runtimeStuff, log)
        ELSE /\ InitCatch(outcome, "loader", log)
             /\ UNCHANGED <<rawConfiguration, hasConfiguration, parserCalls, factoryCalls>>
    /\ UNCHANGED <<signalAt, deliveries, variant, args, runtimeStuff, argv, env, loadQueue, chainItems,
                   cancelled, unhandledRejection, signalHandlers,
                   destroyRequestCount, runtime, destroyState, isInfoEnabled,
                   isFatalEnabled, destroyCalls, cancelCalls, tokenAtDestroy>>

\* Mutant of InstalledSignals: only SIGTERM gets a handler.
InstalledSignalsOnlyTerm == {"SIGTERM"}

\* The signals run() installs gracefulShutdown for once the factory has
\* resolved.
InstalledSignals == shutdownSignals

\* The runtime factory settles: run() assigns runtime and installs the
\* signal handlers, or its catch block ends the process.
FactorySettles ==
    /\ pc = "factory"
    /\ Alive
    /\ \E outcome \in AsyncOutcomes :
        IF outcome = "resolved"
        THEN /\ runtime' = TRUE
             /\ signalHandlers' = InstalledSignals
             /\ pc' = "running"
             /\ log' = log \o (IF isInfoEnabled
                               THEN <<Entry("info", "Application was started", "", 0)>>
                               ELSE <<>>)
             /\ NoExit
             /\ UNCHANGED <<initError, initStep>>
        ELSE /\ InitCatch(outcome, "factory", log)
             /\ UNCHANGED <<runtime, signalHandlers>>
    /\ UNCHANGED <<signalAt, deliveries, variant, args, runtimeStuff, argv, env, loadQueue, chainItems,
                   rawConfiguration, hasConfiguration, cancelled,
                   unhandledRejection, destroyRequestCount, destroyState,
                   isInfoEnabled, isFatalEnabled, destroyCalls, cancelCalls,
                   parserCalls, factoryCalls, tokenAtDestroy>>

\* Mutant of UnhandledRejectionHandler: the rejection is logged as a
\* failed initialization and ends the process with 127.
UnhandledRejectionHandlerAs127(l) ==
    /\ log' = l \o <<Entry("debug", "Unhandled Rejection", "", 0),
                     Entry("fatal", "Unhandled Rejection", "", 0)>>
    /\ Exit(127, "unhandledRejection")

\* The body of the process-level "unhandledRejection" handler.
UnhandledRejectionHandler(l) ==
    /\ log' = l \o <<Entry("debug", "Unhandled Rejection", "", 0),
                     Entry("fatal", "Unhandled Rejection", "", 0)>>
    /\ Exit(255, "unhandledRejection")

\* Mutant of FirstRequest: the guard lets the second delivery through too.
FirstRequestUpToOne(count) == count <= 1

\* Mutant of FirstRequest: no guard, every delivery runs the teardown.
FirstRequestUnguarded(count) == TRUE

\* destroyRequestCount++ === 0
FirstRequest(count) == count = 0

\* Mutant of Teardown: runtime.destroy() is called but not awaited, the
\* exit follows at once.
TeardownNoAwait(signal) ==
    /\ cancelled' = TRUE
    /\ cancelCalls' = cancelCalls + 1
    /\ log' = log \o (IF isInfoEnabled
                      THEN <<Entry("info", "Interrupt signal received", signal, 0)>>
                      ELSE <<>>)
    /\ destroyCalls' = destroyCalls + 1
    /\ tokenAtDestroy' = "Cancelled"
    /\ destroyState' = "pending"
    /\ Exit(0, "gracefulShutdown")

\* Mutant of Teardown: runtime.destroy() is called first, cancel() only
\* after it.
TeardownDestroyFirst(signal) ==
    /\ destroyCalls' = destroyCalls + 1
    /\ tokenAtDestroy' = (IF cancelled THEN "Cancelled" ELSE "Active")
    /\ destroyState' = "pending"
    /\ cancelled' = TRUE
    /\ cancelCalls' = cancelCalls + 1
    /\ log' = log \o (IF isInfoEnabled
                      THEN <<Entry("info", "Interrupt signal received", signal, 0)>>
                      ELSE <<>>)
    /\ NoExit
    /\ UNCHANGED pc

\* gracefulShutdown, first request: cancel, log, call runtime.destroy() and
\* await it.
Teardown(signal) ==
    /\ cancelled' = TRUE
    /\ cancelCalls' = cancelCalls + 1
    /\ log' = log \o (IF isInfoEnabled
                      THEN <<Entry("info", "Interrupt signal received", signal, 0)>>
                      ELSE <<>>)
    /\ destroyCalls' = destroyCalls + 1
    /\ tokenAtDestroy' = (IF cancelled' THEN "Cancelled" ELSE "Active")
    /\ destroyState' = "pending"
    /\ NoExit
    /\ UNCHANGED pc

\* gracefulShutdown(signal)
gracefulShutdown(signal) ==
    /\ destroyRequestCount < MaxSignals
    /\ destroyRequestCount' = destroyRequestCount + 1
    /\ IF FirstRequest(destroyRequestCount)
       THEN Teardown(signal)
       ELSE /\ log' = log \o (IF isInfoEnabled
                              THEN <<Entry("info", "Interrupt signal (N) received", signal,
                                           destroyRequestCount + 1)>>
                              ELSE <<>>)
            /\ NoExit
            /\ UNCHANGED <<pc, cancelled, cancelCalls, destroyCalls, destroyState,
                   tokenAtDestroy>>

\* The exit status of a process ended by a signal it does not handle.
SignalNumber(signal) == IF signal = "SIGTERM" THEN 15 ELSE 2

\* A signal with no handler installed ends the process.
PlatformDefault(signal) ==
    /\ Exit(128 + SignalNumber(signal), "signalDefault")
    /\ UNCHANGED <<destroyRequestCount, log, cancelled, cancelCalls, destroyCalls,
                   destroyState, tokenAtDestroy>>

\* A SIGTERM or SIGINT is delivered to the process.
Signal ==
    /\ Alive
    /\ signalAt' = (IF signalAt = "none" THEN pc ELSE signalAt)
    /\ \E signal \in shutdownSignals :
        IF signal \in signalHandlers
        THEN /\ gracefulShutdown(signal)
             /\ deliveries' = deliveries + 1
        ELSE /\ PlatformDefault(signal)
             /\ UNCHANGED deliveries
    /\ UNCHANGED <<variant, args, runtimeStuff, argv, env, loadQueue, chainItems,
                   rawConfiguration, hasConfiguration, unhandledRejection,
                   signalHandlers, runtime, isInfoEnabled, isFatalEnabled,
                   parserCalls, factoryCalls, initError, initStep>>

\* Mutant of DestroyResolves: the process.exit(0) after the await is
\* missing.
DestroyResolvesNoExit ==
    /\ Alive
    /\ destroyState = "pending"
    /\ destroyState' = "resolved"
    /\ NoExit
    /\ UNCHANGED <<pc, log>>
    /\ UNCHANGED <<signalAt, deliveries, variant, args, runtimeStuff, argv, env,
                   loadQueue, chainItems, rawConfiguration, hasConfiguration,
                   cancelled, unhandledRejection, signalHandlers,
                   destroyRequestCount, runtime, isInfoEnabled, isFatalEnabled,
                   destroyCalls, cancelCalls, parserCalls, factoryCalls,
                   initError, initStep, tokenAtDestroy>>

\* The promise of runtime.destroy() resolves: gracefulShutdown goes on to
\* process.exit(0).
DestroyResolves ==
    /\ Alive
    /\ destroyState = "pending"
    /\ destroyState' = "resolved"
    /\ Exit(0, "gracefulShutdown")
    /\ UNCHANGED log
    /\ UNCHANGED <<signalAt, deliveries, variant, args, runtimeStuff, argv, env,
                   loadQueue, chainItems, rawConfiguration, hasConfiguration,
                   cancelled, unhandledRejection, signalHandlers,
                   destroyRequestCount, runtime, isInfoEnabled, isFatalEnabled,
                   destroyCalls, cancelCalls, parserCalls, factoryCalls,
                   initError, initStep, tokenAtDestroy>>

\* Mutant of DestroyRejects: the rejection is swallowed and the exit(0)
\* still runs.
DestroyRejectsExitZero ==
    /\ Alive
    /\ destroyState = "pending"
    /\ destroyState' = "rejected"
    /\ Exit(0, "gracefulShutdown")
    /\ UNCHANGED log
    /\ UNCHANGED <<signalAt, deliveries, variant, args, runtimeStuff, argv, env,
                   loadQueue, chainItems, rawConfiguration, hasConfiguration,
                   cancelled, unhandledRejection, signalHandlers,
                   destroyRequestCount, runtime, isInfoEnabled, isFatalEnabled,
                   destroyCalls, cancelCalls, parserCalls, factoryCalls,
                   initError, initStep, tokenAtDestroy>>

\* The promise of runtime.destroy() rejects: the await throws, the
\* exit(0) is skipped and the promise of gracefulShutdown, which nothing
\* awaits, rejects: the "unhandledRejection" handler runs.
DestroyRejects ==
    /\ Alive
    /\ destroyState = "pending"
    /\ destroyState' = "rejected"
    /\ UnhandledRejectionHandler(log)
    /\ UNCHANGED <<signalAt, deliveries, variant, args, runtimeStuff, argv, env,
                   loadQueue, chainItems, rawConfiguration, hasConfiguration,
                   cancelled, unhandledRejection, signalHandlers,
                   destroyRequestCount, runtime, isInfoEnabled, isFatalEnabled,
                   destroyCalls, cancelCalls, parserCalls, factoryCalls,
                   initError, initStep, tokenAtDestroy>>

\* The promise of runtime.destroy() settles.
DestroySettles == DestroyResolves \/ DestroyRejects

\* A promise of the application that nothing awaits rejects.
UnhandledRejection ==
    /\ Alive
    /\ unhandledRejection
    /\ UnhandledRejectionHandler(log)
    /\ UNCHANGED <<signalAt, deliveries, variant, args, runtimeStuff, argv, env, loadQueue, chainItems,
                   rawConfiguration, hasConfiguration, cancelled,
                   unhandledRejection, signalHandlers, destroyRequestCount,
                   runtime, destroyState, isInfoEnabled, isFatalEnabled,
                   destroyCalls, cancelCalls, parserCalls, factoryCalls,
                   initError, initStep, tokenAtDestroy>>

\* The timer of the development mode fires.
DelayedExit ==
    /\ Alive
    /\ pc = "exitScheduled"
    /\ Exit(127, "runCatch")
    /\ UNCHANGED <<signalAt, deliveries, variant, args, runtimeStuff, argv, env, loadQueue, chainItems,
                   rawConfiguration, hasConfiguration, cancelled,
                   unhandledRejection, signalHandlers, destroyRequestCount,
                   runtime, destroyState, log, isInfoEnabled, isFatalEnabled,
                   destroyCalls, cancelCalls, parserCalls, factoryCalls,
                   initError, initStep, tokenAtDestroy>>

Next ==
    \/ launcher
    \/ launcherFactory
    \/ LoaderStep
    \/ LoaderDone
    \/ CustomLoaderSettles
    \/ FactorySettles
    \/ Signal
    \/ DestroySettles
    \/ UnhandledRejection
    \/ DelayedExit

Spec == Init /\ [][Next]_vars

\* ------------------------------------- a shutdown whose destroy resolves
\* The runs in which runtime.destroy() resolves and no promise of the
\* application is left to reject unhandled.  A pending destroy is a promise
\* of the application: that it settles is the application's part, stated as
\* weak fairness of DestroyResolves; the continuation of gracefulShutdown
\* after the await then runs in the same turn.
NextLive ==
    \/ launcher
    \/ launcherFactory
    \/ LoaderStep
    \/ LoaderDone
    \/ CustomLoaderSettles
    \/ FactorySettles
    \/ Signal
    \/ DestroyResolves
    \/ DelayedExit

SpecLive == Init /\ [][NextLive]_vars /\ WF_vars(DestroyResolves)

\* ----------------------------- defaultConfigurationLoader called directly
\* The module exports defaultConfigurationLoader(cancellationToken): a caller
\* may hand it a token in either state.  pc is "loading" during the call,
\* then "returned" or "threw"; initError is the kind of the error thrown.

InitLoader ==
    /\ variant = "direct"
    /\ pc = "loading"
    /\ args = <<>>
    /\ runtimeStuff = [loader |-> "defaultConfigurationLoader", parser |-> FALSE,
                       factory |-> "other"]
    /\ argv \in ArgvSet
    /\ env \in EnvSet
    /\ loadQueue = argv
    /\ chainItems = <<>>
    /\ rawConfiguration = EmptyConfiguration
    /\ hasConfiguration = FALSE
    /\ cancelled \in BOOLEAN
    /\ unhandledRejection = FALSE
    /\ signalHandlers = {}
    /\ destroyRequestCount = 0
    /\ runtime = FALSE
    /\ destroyState = "none"
    /\ exitCode = -1
    /\ exitBy = "none"
    /\ exitAt = "none"
    /\ log = <<>>
    /\ isInfoEnabled = FALSE
    /\ isFatalEnabled = FALSE
    /\ destroyCalls = 0
    /\ cancelCalls = 0
    /\ parserCalls = 0
    /\ factoryCalls = 0
    /\ initError = "none"
    /\ initStep = "none"
    /\ signalAt = "none"
    /\ deliveries = 0
    /\ tokenAtDestroy = "none"

\* One turn of the loop: the token is not consulted; a failed read rejects
\* the call.
DirectLoaderStep ==
    /\ variant = "direct"
    /\ pc = "loading"
    /\ loadQueue # <<>>
    /\ \E readOk \in (IF IsAwaitedSource(Head(loadQueue)) THEN BOOLEAN ELSE {TRUE}) :
        IF readOk
        THEN /\ chainItems' = LoaderPush(chainItems, Head(loadQueue), env)
             /\ loadQueue' = Tail(loadQueue)
             /\ UNCHANGED <<pc, initError, initStep>>
        ELSE /\ pc' = "threw"
             /\ initError' = "Error"
             /\ initStep' = "loader"
             /\ UNCHANGED <<chainItems, loadQueue>>
    /\ UNCHANGED <<signalAt, deliveries, variant, args, runtimeStuff, argv, env,
                   rawConfiguration, hasConfiguration, cancelled,
                   unhandledRejection, signalHandlers, destroyRequestCount,
                   runtime, destroyState, exitCode, exitBy, exitAt, log,
                   isInfoEnabled, isFatalEnabled, destroyCalls, cancelCalls,
                   parserCalls, factoryCalls, tokenAtDestroy>>

\* After the loop: the LaunchError for an empty chain, else the chained
\* configuration is returned.
DirectLoaderDone ==
    /\ variant = "direct"
    /\ pc = "loading"
    /\ loadQueue = <<>>
    /\ IF MissingConfiguration(chainItems)
       THEN /\ pc' = "threw"
            /\ initError' = "LaunchError"
            /\ initStep' = "loader"
            /\ UNCHANGED <<rawConfiguration, hasConfiguration>>
       ELSE /\ pc' = "returned"
            /\ rawConfiguration' = LoaderFinish(chainItems)
            /\ hasConfiguration' = TRUE
            /\ UNCHANGED <<initError, initStep>>
    /\ UNCHANGED <<signalAt, deliveries, variant, args, runtimeStuff, argv, env,
                   loadQueue, chainItems, cancelled, unhandledRejection,
                   signalHandlers, destroyRequestCount, runtime, destroyState,
                   exitCode, exitBy, exitAt, log, isInfoEnabled,
                   isFatalEnabled, destroyCalls, cancelCalls, parserCalls,
                   factoryCalls, tokenAtDestroy>>

NextLoader ==
    \/ DirectLoaderStep
    \/ DirectLoaderDone

SpecLoader == InitLoader /\ [][NextLoader]_vars

\* ------------------------------------------------------------ claims
Initializing == pc \in {"loading", "factory"}

HasEntry(level, msg) ==
    \E i \in 1..Len(log) : log[i].level = level /\ log[i].msg = msg

CountLevel(level) == Cardinality({i \in 1..Len(log) : log[i].level = level})

\* C1: whatever the number of SIGTERM/SIGINT deliveries handled after
\* Running, runtime.destroy() is invoked exactly once: by the delivery that
\* found destroyRequestCount at 0, and by no later one.
C1_DestroyExactlyOnce ==
    /\ destroyCalls = (IF destroyRequestCount = 0 THEN 0 ELSE 1)
    /\ destroyCalls >= 1 => runtime

\* Several deliveries arrived while the first one is suspended on destroy.
C1_Witness ==
    /\ destroyRequestCount >= 2
    /\ destroyState = "pending"
    /\ destroyCalls = 1
    /\ Alive

\* C2: an exit with code 0 issued once the launcher is Running happens only
\* after the promise of runtime.destroy() has resolved: never while destroy
\* is pending or has not been called.
C2_ExitZeroAfterDestroy ==
    /\ exitBy = "gracefulShutdown" => (exitCode = 0 /\ destroyState = "resolved")
    /\ (exitCode = 0 /\ exitAt = "running") =>
            (destroyCalls = 1 /\ destroyState = "resolved")

\* The shutdown sequence has exited with 0 after further signals came in.
C2_Witness ==
    /\ exitCode = 0
    /\ exitBy = "gracefulShutdown"
    /\ destroyState = "resolved"
    /\ destroyRequestCount >= 2

\* C3: an initialization that fails with CancelledError ends the process
\* with exit code 0 after exactly one warning, 'Runtime initialization was
\* cancelled by user'; no fatal entry is written and 127 is not produced.
C3_CancelledInitExitsZero ==
    initError = "CancelledError" =>
        /\ exitCode = 0
        /\ exitBy = "initCancelled"
        /\ CountLevel("warn") = 1
        /\ log[Len(log)] = Entry("warn", "Runtime initialization was cancelled by user", "", 0)
        /\ CountLevel("fatal") = 0
        /\ ~runtime

\* The runtime factory has failed with CancelledError.
C3_Witness ==
    /\ initError = "CancelledError"
    /\ initStep = "factory"
    /\ exitCode = 0

FactoryFailed ==
    initStep = "factory" /\ initError \notin {"none", "CancelledError"}

\* C4 as stated: a runtime factory that fails with an error other than a
\* cancellation ends the process with exit code 127 after a fatal 'Runtime
\* initialization failed' entry; no signal handler is installed, destroy is
\* never called and Running is never reached.
C4_Original ==
    FactoryFailed =>
        /\ exitCode = 127
        /\ HasEntry("fatal", "Runtime initialization failed")
        /\ signalHandlers = {}
        /\ destroyCalls = 0
        /\ ~runtime

\* C4 as amended: the same, the fatal entry being written if and only if
\* the logger's fatal level is enabled (log.isFatalEnabled).
C4_FailedInitExits127 ==
    FactoryFailed =>
        /\ exitCode = 127
        /\ exitBy = "initFailed"
        /\ HasEntry("fatal", "Runtime initialization failed") <=> isFatalEnabled
        /\ CountLevel("warn") = 0
        /\ signalHandlers = {}
        /\ destroyCalls = 0
        /\ destroyRequestCount = 0
        /\ ~runtime

\* The runtime factory has failed with an Error and the fatal entry is there.
C4_Witness ==
    /\ initStep = "factory"
    /\ initError = "Error"
    /\ exitCode = 127
    /\ HasEntry("fatal", "Runtime initialization failed")

C6_SignalDuringFactoryCancels ==
    (signalAt = "factory" /\ ~Alive /\ exitBy # "unhandledRejection") =>
        /\ exitCode = 0
        /\ HasEntry("warn", "Runtime initialization was cancelled by user")

\* The sources a default loader chains, each with its tier: 3 for the
\* environment, 2 for a secrets directory, 1 for a file.
Tier(arg) ==
    IF IsEnvArg(arg) THEN 3
    ELSE IF StartsWith(arg, CONFIG_SECRET_DIR_ARG) THEN 2
    ELSE 1

RecognizedAt == {i \in 1..Len(argv) : IsRecognized(argv[i])}

ChainedSources ==
    {[tier |-> Tier(argv[i]), conf |-> SourceOf(argv[i], env)] : i \in RecognizedAt}
    \cup (IF runtimeStuff.loader = "defaultConfigurationFactory"
          THEN {[tier |-> 3, conf |-> env]}
          ELSE {})

Defining(k) == {src \in ChainedSources : k \in DOMAIN src.conf}

TopTier(k) ==
    CHOOSE t \in {src.tier : src \in Defining(k)} :
        \A src \in Defining(k) : src.tier <= t

LoadedByDefault == hasConfiguration /\ ReadsArgv(runtimeStuff)

\* C7: whatever the order of the flags, the configuration of the default
\* loader answers a key from the highest tier that defines it: environment
\* over secrets directory over file.
C7_TierPrecedence ==
    LoadedByDefault =>
        \A k \in DOMAIN rawConfiguration :
            rawConfiguration[k] \in
                {src.conf[k] : src \in {d \in Defining(k) : d.tier = TopTier(k)}}

\* The flags of tier t that define key k, by position on the command line.
FlagsDefining(t, k) ==
    {i \in RecognizedAt : Tier(argv[i]) = t /\ k \in DOMAIN SourceOf(argv[i], env)}

\* Whether key k is defined by exactly the sources of tier t.
OnlyTierDefining(t, k) ==
    /\ FlagsDefining(t, k) # {}
    /\ \A src \in Defining(k) : src.tier = t

FirstOf(S) == CHOOSE i \in S : \A j \in S : i <= j
LastOf(S) == CHOOSE i \in S : \A j \in S : j <= i

\* C8 as stated: among sources of one tier the flag that appears first wins;
\* --config-file=A.json then --config-file=B.json gives port=1, host=x.
C8_Original ==
    LoadedByDefault =>
        /\ \A t \in {1, 2}, k \in {"port", "host"} :
            OnlyTierDefining(t, k) =>
                /\ k \in DOMAIN rawConfiguration
                /\ rawConfiguration[k] =
                       SourceOf(argv[FirstOf(FlagsDefining(t, k))], env)[k]
        /\ (argv = <<FileA, FileB>> /\ env = EmptyConfiguration) =>
                rawConfiguration = [port |-> "1", host |-> "x"]

\* C8 as amended: among sources of one tier the flag that appears last wins;
\* --config-file=A.json then --config-file=B.json gives port=2, host=x, and
\* a key only one of them defines has that one's value.
C8_LastFlagWins ==
    LoadedByDefault =>
        /\ \A t \in {1, 2}, k \in {"port", "host"} :
            OnlyTierDefining(t, k) =>
                /\ k \in DOMAIN rawConfiguration
                /\ rawConfiguration[k] =
                       SourceOf(argv[LastOf(FlagsDefining(t, k))], env)[k]
        /\ (argv = <<FileA, FileB>> /\ env = EmptyConfiguration) =>
                rawConfiguration = [port |-> "2", host |-> "x"]

\* The default loader of index.ts has resolved for A.json then B.json.
C8_Witness ==
    /\ hasConfiguration
    /\ runtimeStuff.loader = "defaultConfigurationLoader"
    /\ argv = <<FileA, FileB>>
    /\ rawConfiguration = [port |-> "2", host |-> "x"]

\* The arguments the default loader's loop has taken so far.
TakenAt == 1..(Len(argv) - Len(loadQueue))

\* C9: with none of the recognized flags on the command line the default
\* configuration loader throws instead of returning a configuration, and
\* the launch ends with exit code 127 without a call of the parser or of
\* the runtime factory; an argument that matches no recognized flag never
\* contributes a source.
C9_NoFlagsIsFatal ==
    runtimeStuff.loader = "defaultConfigurationLoader" =>
        /\ Len(chainItems) = Cardinality(TakenAt \cap RecognizedAt)
        /\ RecognizedAt = {} =>
            /\ ~hasConfiguration
            /\ parserCalls = 0
            /\ factoryCalls = 0
            /\ ~runtime
            /\ pc \in {"loading", "terminated"}
            /\ exitBy \in {"none", "initFailed", "unhandledRejection", "signalDefault"}
            /\ exitBy = "initFailed" =>
                    (exitCode = 127 /\ initError = "LaunchError" /\ initStep = "loader")

\* The default loader has thrown on a command line of unrecognized arguments.
C9_Witness ==
    /\ runtimeStuff.loader = "defaultConfigurationLoader"
    /\ Len(argv) >= 2
    /\ RecognizedAt = {}
    /\ exitBy = "initFailed"
    /\ exitCode = 127

\* C10: in every launcher state the unhandled-rejection handler can run; it
\* logs and exits with 255, and leaves destroyRequestCount, the
\* cancellation source and runtime.destroy() alone.
C10_UnhandledRejectionIsFatal ==
    /\ []((Alive /\ pc \in {"loading", "factory", "running", "exitScheduled"})
            => ENABLED UnhandledRejection)
    /\ [][exitBy' = "unhandledRejection" =>
            /\ exitCode' = 255
            /\ log' = log \o <<Entry("debug", "Unhandled Rejection", "", 0),
                               Entry("fatal", "Unhandled Rejection", "", 0)>>
            /\ destroyRequestCount' = destroyRequestCount
            /\ cancelled' = cancelled
            /\ cancelCalls' = cancelCalls
            /\ destroyCalls' = destroyCalls]_vars

\* The handler has ended the process during a shutdown whose destroy was
\* still pending.
C10_Witness ==
    /\ exitCode = 255
    /\ exitBy = "unhandledRejection"
    /\ exitAt = "running"
    /\ destroyState = "pending"
    /\ destroyRequestCount >= 1

\* C11 as claimed: a wrong-usage call of launcher is not converted into a
\* logged fatal message and a process exit; nothing of the launcher catches
\* it.
C11_Original ==
    runtimeStuff.loader = "wrong" =>
        /\ ~HasEntry("fatal", "Wrong arguments")
        /\ pc # "exitScheduled"
        /\ exitBy # "runCatch"

\* C11, amended: the Error("Wrong arguments") is thrown inside the async
\* run(), after the unhandled-rejection handler is registered, so it rejects
\* run()'s promise; the catch on that promise logs it as fatal when the fatal
\* level is enabled and exits with 127, at once or by the one second timer;
\* no loader, parser or factory is called and no signal handler installed.
C11_WrongArgumentsExit127 ==
    (pc # "idle" /\ runtimeStuff.loader = "wrong") =>
        /\ pc \in {"exitScheduled", "terminated"}
        /\ unhandledRejection
        /\ HasEntry("fatal", "Wrong arguments") <=> isFatalEnabled
        /\ exitBy \in {"none", "runCatch", "unhandledRejection", "signalDefault"}
        /\ pc = "exitScheduled" <=> exitBy = "none"
        /\ exitBy = "runCatch" => exitCode = 127
        /\ parserCalls = 0 /\ factoryCalls = 0 /\ chainItems = <<>>
        /\ signalHandlers = {} /\ initError = "none"

C11_Witness ==
    /\ args = <<>>
    /\ runtimeStuff.loader = "wrong"
    /\ exitBy = "runCatch"
    /\ exitCode = 127
    /\ exitAt = "exitScheduled"
    /\ HasEntry("fatal", "Wrong arguments")

\* The exit codes of the launcher's own process.exit calls, with what
\* produced each.
ExitMapping ==
    /\ Alive <=> exitBy = "none"
    /\ exitBy \notin {"none", "signalDefault"} => exitCode \in {0, 127, 255}
    /\ exitCode = 0 <=>
           \/ exitBy = "gracefulShutdown" /\ destroyState = "resolved"
           \/ exitBy = "initCancelled" /\ initError = "CancelledError"
    /\ exitCode = 127 <=>
           \/ exitBy = "initFailed" /\ initError \notin {"none", "CancelledError"}
           \/ exitBy = "runCatch" /\ runtimeStuff.loader = "wrong"
    /\ exitCode = 255 <=> exitBy = "unhandledRejection"

\* C12: every exit the launcher issues has a code in {0, 127, 255}; 0 comes
\* only from a shutdown whose destroy resolved or from an initialization
\* ended by a CancelledError, 127 only from a failed initialization or an
\* error escaping run(), 255 only from the unhandled-rejection handler; and
\* once the process has exited, neither the code nor its origin changes.
C12_ExitCodeMapping ==
    /\ []ExitMapping
    /\ [][~Alive => (exitCode' = exitCode /\ exitBy' = exitBy /\ pc' = pc)]_vars

C12_Witness ==
    /\ exitCode = 255
    /\ exitBy = "unhandledRejection"
    /\ exitAt = "exitScheduled"

\* C13 as claimed: the process never terminates, with any exit code, while
\* the teardown's destroy call is in flight, and the teardown body is entered
\* at most once.
C13_Original ==
    /\ ~Alive => destroyState # "pending"
    /\ destroyCalls <= 1

\* C13, amended: the shutdown sequence itself exits only after the awaited
\* destroy has resolved and no later signal re-enters the teardown body, but
\* the process can terminate while destroy is in flight by one path: the
\* unhandled-rejection handler, with exit code 255.
C13_TeardownCompletesUnlessRejection ==
    /\ (~Alive /\ destroyState = "pending") =>
           (exitBy = "unhandledRejection" /\ exitCode = 255)
    /\ exitBy = "gracefulShutdown" => destroyState = "resolved"
    /\ destroyCalls <= 1
    /\ destroyCalls = 1 <=> destroyState # "none"

C13_Witness ==
    /\ ~Alive
    /\ destroyState = "pending"
    /\ exitCode = 255
    /\ destroyCalls = 1
    /\ destroyRequestCount = 2

\* The awaited source loads (file or secrets directory) the loader has
\* completed so far.
LoadsCompleted ==
    Cardinality({i \in 1..(Len(argv) - Len(loadQueue)) : IsAwaitedSource(argv[i])})

\* C14: defaultConfigurationLoader called with an already cancelled token,
\* on a command line that names a file or a secrets directory, starts no
\* awaited source load and returns no configuration.
C14_CancelledTokenStopsLoader ==
    (/\ variant = "direct"
     /\ cancelled
     /\ \E i \in 1..Len(argv) : IsAwaitedSource(argv[i])) =>
        /\ LoadsCompleted = 0
        /\ ~hasConfiguration
        /\ pc # "returned"

\* C15: cancel() runs exactly once, in the delivery that finds the guard at
\* 0, and before runtime.destroy() is called: destroy is only ever called
\* with the token Cancelled, and the token never goes back to Active.
C15_CancelOnceBeforeDestroy ==
    /\ [](/\ cancelCalls = (IF destroyRequestCount = 0 THEN 0 ELSE 1)
          /\ cancelled <=> cancelCalls = 1
          /\ destroyCalls >= 1 => (cancelled /\ tokenAtDestroy = "Cancelled")
          /\ destroyCalls = 0 => tokenAtDestroy = "none")
    /\ [][/\ cancelled => cancelled'
          /\ cancelCalls' # cancelCalls =>
                (destroyRequestCount = 0 /\ destroyRequestCount' = 1)]_vars

C15_Witness ==
    /\ destroyCalls = 1
    /\ cancelCalls = 1
    /\ cancelled
    /\ tokenAtDestroy = "Cancelled"
    /\ destroyRequestCount = 2
    /\ destroyState = "resolved"

\* A step that is the k-th handled signal delivery for some k >= 2.
LaterDelivery ==
    /\ destroyRequestCount >= 1
    /\ destroyRequestCount' # destroyRequestCount

\* What a later delivery leaves alone: the token, the runtime and destroy
\* state and the process state.
LaterDeliveryFrame ==
    /\ destroyRequestCount' = destroyRequestCount + 1
    /\ deliveries' = deliveries + 1
    /\ UNCHANGED <<cancelled, cancelCalls, runtime, destroyCalls, destroyState,
                   tokenAtDestroy, pc, exitCode, exitBy, signalHandlers>>

\* The numbered notice of the k-th delivery.
NumberedNotice ==
    \E signal \in shutdownSignals :
        log' = Append(log, Entry("info", "Interrupt signal (N) received", signal,
                                 destroyRequestCount'))

\* C16 as claimed: the k-th delivery, k >= 2, increments
\* destroyRequestCount from k-1 to k, logs the notice numbered k and changes
\* nothing else; destroyRequestCount is the number of signals delivered to the
\* handlers and never decreases.
C16_Original ==
    /\ [](destroyRequestCount = deliveries)
    /\ [][destroyRequestCount' >= destroyRequestCount]_vars
    /\ [][LaterDelivery => (LaterDeliveryFrame /\ NumberedNotice)]_vars

\* C16, amended: as claimed, except that the notice numbered k is logged
\* only when the logger's info level is enabled; with it disabled the k-th
\* delivery changes nothing but the counter.
C16_LaterDeliveryOnlyCounts ==
    /\ [](destroyRequestCount = deliveries)
    /\ [][destroyRequestCount' >= destroyRequestCount]_vars
    /\ [][LaterDelivery =>
            /\ LaterDeliveryFrame
            /\ IF isInfoEnabled THEN NumberedNotice ELSE log' = log]_vars

C16_Witness ==
    /\ destroyRequestCount = 2
    /\ deliveries = 2
    /\ destroyCalls = 1
    /\ destroyState = "pending"
    /\ Alive
    /\ ~isInfoEnabled
    /\ ~HasEntry("info", "Interrupt signal (N) received")

\* C17: once the first termination signal has been handled, and with
\* destroy resolving and no unhandled rejection, the process eventually
\* exits with code 0; until destroy settles the process stays alive in the
\* shutdown, whatever further signals arrive.
C17_ShutdownTerminates ==
    /\ (destroyState = "pending") ~> (exitCode = 0 /\ exitBy = "gracefulShutdown")
    /\ [][(destroyState = "pending" /\ destroyState' = "pending") =>
            (Alive' /\ pc' = "running")]_vars

C17_Witness ==
    /\ exitCode = 0
    /\ exitBy = "gracefulShutdown"
    /\ signalAt = "running"
    /\ destroyRequestCount = MaxSignals
    /\ deliveries = MaxSignals

\* C18: when runtime.destroy() rejects during the shutdown, the exit(0) is
\* skipped; the rejection of gracefulShutdown's promise reaches the
\* unhandled-rejection handler, which logs it and exits with code 255.
C18_RejectedDestroyExits255 ==
    /\ [](destroyState = "rejected" =>
            /\ exitCode = 255
            /\ exitBy = "unhandledRejection"
            /\ exitAt = "running"
            /\ log[Len(log)] = Entry("fatal", "Unhandled Rejection", "", 0))
    /\ [][(destroyState = "pending" /\ destroyState' = "rejected") =>
            /\ Alive /\ ~Alive'
            /\ log' = log \o <<Entry("debug", "Unhandled Rejection", "", 0),
                                Entry("fatal", "Unhandled Rejection", "", 0)>>]_vars

C18_Witness ==
    /\ destroyState = "rejected"
    /\ exitCode = 255
    /\ destroyRequestCount = 1
    /\ cancelled

C20_OutcomeByErrorKind ==
    /\ initError # "none" =>
          /\ initStep \in {"loader", "parser", "factory"}
          /\ pc = "terminated"
          /\ exitBy \in {"initCancelled", "initFailed"}
          /\ IF initError = "CancelledError"
             THEN /\ exitCode = 0
                  /\ exitBy = "initCancelled"
                  /\ ~cancelled
                  /\ log[Len(log)] = Entry("warn",
                         "Runtime initialization was cancelled by user", "", 0)
             ELSE /\ exitCode = 127
                  /\ exitBy = "initFailed"
                  /\ log[Len(log)] = Entry("debug", "Runtime initialization failed", "", 0)
    /\ (exitBy = "runCatch" \/ pc = "exitScheduled") =>
          (initError = "none" /\ runtimeStuff.loader = "wrong")
    /\ exitBy \in {"initCancelled", "initFailed"} => initError # "none"

C20_Witness ==
    /\ initError = "CancelledError"
    /\ initStep = "parser"
    /\ ~cancelled
    /\ exitCode = 0
    /\ parserCalls = 1
    /\ factoryCalls = 0

====
